---- MODULE Spec2Model ----
(***************************************************************************)
(* Trash Transformer mecanum-drive firmware.                               *)
(*                                                                         *)
(* Three firmware builds are modelled, selected by the variable fw:        *)
(*   "V3"    the TB6612FNG drive firmware      (src/unnamed/part_000)      *)
(*   "EARLY" the earlier drive firmware        (src/src/main.cpp:1-146)    *)
(*   "TEST"  the motor-test firmware           (src/src/main.cpp:147-641)  *)
(*                                                                         *)
(* The state is the GPIO output latch of every pin the firmware writes,    *)
(* the duty register of every LEDC channel, globalSpeed, and the position  *)
(* of the single thread of control (setup, then one request handler at a   *)
(* time).  A setMotor call is three steps, one per pin / PWM write.        *)
(*                                                                         *)
(* The control panel the V3 firmware serves is modelled by its script's     *)
(* state and listeners (specification SpecClient, at the end).             *)
(***************************************************************************)
EXTENDS Integers, Sequences, FiniteSets, TLC

VARIABLES fw,          \* which firmware build is running
          pc,          \* next setup statement, "idle", "handler" or "actuator"
          gpio,        \* GPIO number -> level last written (LOW before any write)
          ledc,        \* LEDC channel -> duty last passed to ledcWrite
          globalSpeed, \* int globalSpeed
          invert,      \* wheel -> Motor.invert (V3 only)
          req,         \* the request being handled, or the last one handled
          resp,        \* HTTP status of the last response sent (0: none yet)
          todo,        \* setMotor calls the running function still has to make
          line,        \* statement of the head setMotor call to execute next (0..2)
          lastDir,     \* wheel -> dir argument of the last setMotor call that returned
          log,         \* pin and channel writes made since the running function started
          pre,         \* pin levels, duties and route of the last request, taken when a request arrives
          activeBtn,   \* control panel: let activeBtn (data-cmd of the button, "null" when none)
          stopTimer,   \* control panel: let stopTimer (id returned by the last setTimeout, 0 when null)
          timers,      \* control panel: ids of the timeouts set and neither fired nor cleared
          heldKeys,    \* control panel: const heldKeys (a Set of KeyboardEvent.key values)
          lastSent,    \* control panel: command of the last request passed to send ("" when none)
          pressed,     \* operator: on-screen buttons a pointer is holding down
          physKeys,    \* operator: keyboard keys held down
          shift        \* operator: whether Shift is held down

firmwareVars == <<fw, pc, gpio, ledc, globalSpeed, invert, req, resp, todo, line, lastDir, log, pre>>
clientVars == <<activeBtn, stopTimer, timers, heldKeys, lastSent, pressed, physKeys, shift>>
vars == <<firmwareVars, clientVars>>

\* The control panel as its script leaves it when the page has loaded, with
\* the operator touching nothing.
PanelLoaded ==
    /\ activeBtn = "null"
    /\ stopTimer = 0
    /\ timers = {}
    /\ heldKeys = {}
    /\ lastSent = ""
    /\ pressed = {}
    /\ physKeys = {}
    /\ shift = FALSE

LOW == 0
HIGH == 1

Firmwares == {"V3", "EARLY", "TEST"}
Wheels == {"FL", "FR", "BL", "BR"}
NoDir == 2

----------------------------------------------------------------------------
(* Bounds of the model *)

\* how far the sampled speed requests reach around the clamp limits 0 and 255
Margin == 1

SpeedInputs == {-5, 150, 400} \cup ((0 - Margin)..Margin) \cup ((255 - Margin)..(255 + Margin))

----------------------------------------------------------------------------
(* Program constants *)

DefaultSpeed == 150
TEST_SPEED == 180
STBY_LEFT == 15
STBY_RIGHT == 2

mFL_V3 == [name |-> "FL", in1 |-> 16, in2 |-> 17, pwmPin |-> 18, channel |-> 0, invert |-> FALSE]
\* mutation: front-right is given the LEDC channel of front-left
mFR_V3_sharesChannel == [name |-> "FR", in1 |-> 19, in2 |-> 21, pwmPin |-> 22, channel |-> 0, invert |-> FALSE]

mFR_V3 == [name |-> "FR", in1 |-> 19, in2 |-> 21, pwmPin |-> 22, channel |-> 1, invert |-> FALSE]
mBL_V3 == [name |-> "BL", in1 |-> 4,  in2 |-> 5,  pwmPin |-> 13, channel |-> 2, invert |-> FALSE]
mBR_V3 == [name |-> "BR", in1 |-> 14, in2 |-> 27, pwmPin |-> 26, channel |-> 3, invert |-> FALSE]

mFL_EARLY == [name |-> "FL", in1 |-> 13, in2 |-> 12, pwmPin |-> 14, channel |-> 0, invert |-> FALSE]
mFR_EARLY == [name |-> "FR", in1 |-> 27, in2 |-> 26, pwmPin |-> 25, channel |-> 1, invert |-> FALSE]
mBL_EARLY == [name |-> "BL", in1 |-> 33, in2 |-> 32, pwmPin |-> 23, channel |-> 2, invert |-> FALSE]
mBR_EARLY == [name |-> "BR", in1 |-> 19, in2 |-> 18, pwmPin |-> 5,  channel |-> 3, invert |-> FALSE]

mFL_TEST == [name |-> "FL", in1 |-> 16, in2 |-> 17, pwmPin |-> 18, channel |-> 0, invert |-> FALSE]
mFR_TEST == [name |-> "FR", in1 |-> 19, in2 |-> 21, pwmPin |-> 22, channel |-> 1, invert |-> FALSE]
mBL_TEST == [name |-> "BL", in1 |-> 4,  in2 |-> 5,  pwmPin |-> 13, channel |-> 2, invert |-> FALSE]
mBR_TEST == [name |-> "BR", in1 |-> 14, in2 |-> 27, pwmPin |-> 26, channel |-> 3, invert |-> FALSE]

\* the Motor descriptor of wheel w in firmware f
Motor(f, w) ==
    CASE f = "V3"    -> (CASE w = "FL" -> mFL_V3 [] w = "FR" -> mFR_V3
                           [] w = "BL" -> mBL_V3 [] w = "BR" -> mBR_V3)
      [] f = "EARLY" -> (CASE w = "FL" -> mFL_EARLY [] w = "FR" -> mFR_EARLY
                           [] w = "BL" -> mBL_EARLY [] w = "BR" -> mBR_EARLY)
      [] f = "TEST"  -> (CASE w = "FL" -> mFL_TEST [] w = "FR" -> mFR_TEST
                           [] w = "BL" -> mBL_TEST [] w = "BR" -> mBR_TEST)

StbyPins(f) == IF f = "EARLY" THEN {} ELSE {STBY_LEFT, STBY_RIGHT}
Pins(f) == StbyPins(f) \cup UNION {{Motor(f, w).in1, Motor(f, w).in2} : w \in Wheels}
Channels(f) == {Motor(f, w).channel : w \in Wheels}

----------------------------------------------------------------------------
(* Request texts: String::toInt and constrain *)

DigitChars == <<"0", "1", "2", "3", "4", "5", "6", "7", "8", "9">>
IsDigit(c) == \E i \in 1..10 : DigitChars[i] = c
DigitVal(c) == (CHOOSE i \in 1..10 : DigitChars[i] = c) - 1

RECURSIVE NatText(_)
NatText(n) == IF n < 10 THEN <<DigitChars[n + 1]>>
              ELSE NatText(n \div 10) \o <<DigitChars[(n % 10) + 1]>>

\* the decimal text a client puts after "/speed?val=" for the integer v
DecText(v) == IF v < 0 THEN <<"-">> \o NatText(0 - v) ELSE NatText(v)

RECURSIVE ParseDigits(_, _, _)
ParseDigits(t, i, acc) ==
    IF i > Len(t) \/ ~IsDigit(t[i]) THEN acc
    ELSE ParseDigits(t, i + 1, acc * 10 + DigitVal(t[i]))

\* String::toInt(): optional sign, then the leading decimal digits; 0 when
\* there are none.  The texts of the model are far below the range of long.
toInt(t) ==
    IF Len(t) > 0 /\ t[1] = "-" THEN 0 - ParseDigits(t, 2, 0)
    ELSE IF Len(t) > 0 /\ t[1] = "+" THEN ParseDigits(t, 2, 0)
    ELSE ParseDigits(t, 1, 0)

\* mutation: the upper limit is not applied
constrain_noUpper(x, lo, hi) == IF x < lo THEN lo ELSE x

constrain(x, lo, hi) == IF x < lo THEN lo ELSE IF x > hi THEN hi ELSE x

----------------------------------------------------------------------------
(* Wheel actuator *)

Call(w, d) == [m |-> w, dir |-> d]
CallEARLY(w, a, b) == [m |-> w, d1 |-> a, d2 |-> b]

\* mutation: the duty of a driving wheel is full scale, not globalSpeed
setMotorV3_fullDuty(c) ==
    LET dir == IF invert[c.m] THEN 0 - c.dir ELSE c.dir
    IN  IF dir > 0 THEN <<HIGH, LOW, 255>>
        ELSE IF dir < 0 THEN <<LOW, HIGH, 255>>
        ELSE <<LOW, LOW, 0>>

\* mutation: the invert flag is ignored
setMotorV3_noInvert(c) ==
    IF c.dir > 0 THEN <<HIGH, LOW, globalSpeed>>
    ELSE IF c.dir < 0 THEN <<LOW, HIGH, globalSpeed>>
    ELSE <<LOW, LOW, 0>>

\* mutation: coast leaves the PWM running, as the earlier firmware does
setMotorV3_coastDuty(c) ==
    LET dir == IF invert[c.m] THEN 0 - c.dir ELSE c.dir
    IN  IF dir > 0 THEN <<HIGH, LOW, globalSpeed>>
        ELSE IF dir < 0 THEN <<LOW, HIGH, globalSpeed>>
        ELSE <<LOW, LOW, globalSpeed>>

\* V3 setMotor: the values it writes, in order, to m.in1, m.in2 and m.channel
setMotorV3(c) ==
    LET dir == IF invert[c.m] THEN 0 - c.dir ELSE c.dir
    IN  IF dir > 0 THEN <<HIGH, LOW, globalSpeed>>
        ELSE IF dir < 0 THEN <<LOW, HIGH, globalSpeed>>
        ELSE <<LOW, LOW, 0>>

\* earlier drive firmware: setMotor(m, d1, d2)
setMotorEARLY(c) == <<c.d1, c.d2, globalSpeed>>

\* motor-test firmware: setMotor(m, dir)
setMotorTEST(c) ==
    IF c.dir > 0 THEN <<HIGH, LOW, TEST_SPEED>>
    ELSE IF c.dir < 0 THEN <<LOW, HIGH, TEST_SPEED>>
    ELSE <<LOW, LOW, 0>>

setMotor(c) ==
    CASE fw = "V3" -> setMotorV3(c)
      [] fw = "EARLY" -> setMotorEARLY(c)
      [] fw = "TEST" -> setMotorTEST(c)

\* a log entry: digitalWrite on GPIO id, or ledcWrite on channel id
Write(kind, id) == [kind |-> kind, id |-> id]

\* first statement of setMotor: digitalWrite(m.in1, ...)
digitalWriteIn1 ==
    /\ todo # <<>>
    /\ line = 0
    /\ LET c == Head(todo)
       IN  /\ gpio' = [gpio EXCEPT ![Motor(fw, c.m).in1] = setMotor(c)[1]]
           /\ log' = Append(log, Write("gpio", Motor(fw, c.m).in1))
    /\ line' = 1
    /\ UNCHANGED <<clientVars, fw, pc, ledc, globalSpeed, invert, req, resp, todo, lastDir, pre>>

\* second statement of setMotor: digitalWrite(m.in2, ...)
digitalWriteIn2 ==
    /\ todo # <<>>
    /\ line = 1
    /\ LET c == Head(todo)
       IN  /\ gpio' = [gpio EXCEPT ![Motor(fw, c.m).in2] = setMotor(c)[2]]
           /\ log' = Append(log, Write("gpio", Motor(fw, c.m).in2))
    /\ line' = 2
    /\ UNCHANGED <<clientVars, fw, pc, ledc, globalSpeed, invert, req, resp, todo, lastDir, pre>>

\* third statement of setMotor: ledcWrite(m.channel, ...), then the call returns
ledcWriteDuty ==
    /\ todo # <<>>
    /\ line = 2
    /\ LET c == Head(todo)
       IN  /\ ledc' = [ledc EXCEPT ![Motor(fw, c.m).channel] = setMotor(c)[3]]
           /\ lastDir' = IF fw = "EARLY" THEN lastDir
                         ELSE [lastDir EXCEPT ![c.m] = c.dir]
           /\ log' = Append(log, Write("ledc", Motor(fw, c.m).channel))
    /\ todo' = Tail(todo)
    /\ line' = 0
    /\ UNCHANGED <<clientVars, fw, pc, gpio, globalSpeed, invert, req, resp, pre>>

----------------------------------------------------------------------------
(* Maneuvers *)

\* mutation: the last wheel is left out
stopAllV3_skipsBR == <<Call("FL", 0), Call("FR", 0), Call("BL", 0)>>

stopAllV3 == <<Call("FL", 0), Call("FR", 0), Call("BL", 0), Call("BR", 0)>>

\* mutation: the front-right and back-left arguments are exchanged
move_swapped(fl, fr, bl, br) == <<Call("FL", fl), Call("FR", bl), Call("BL", fr), Call("BR", br)>>

\* mutation: the back-left wheel is set before the front-right wheel
move_backLeftEarly(fl, fr, bl, br) == <<Call("FL", fl), Call("BL", bl), Call("FR", fr), Call("BR", br)>>

\* mutation: the back-right wheel is not set
move_skipsBR(fl, fr, bl, br) == <<Call("FL", fl), Call("FR", fr), Call("BL", bl)>>

\* mutation: the front-left wheel is not set
move_skipsFL(fl, fr, bl, br) == <<Call("FR", fr), Call("BL", bl), Call("BR", br)>>

move(fl, fr, bl, br) == <<Call("FL", fl), Call("FR", fr), Call("BL", bl), Call("BR", br)>>

driveForward == move(1, 1, 1, 1)
driveBack == move(-1, -1, -1, -1)
strafeLeft == move(-1, 1, 1, -1)
strafeRight == move(1, -1, -1, 1)
diagFwdLeft == move(0, 1, 1, 0)
diagFwdRight == move(1, 0, 0, 1)
diagBckLeft == move(-1, 0, 0, -1)
diagBckRight == move(0, -1, -1, 0)
rotateCW == move(1, -1, 1, -1)
\* mutation: the back wheels turn the same way as for rotate-cw
rotateCCW_backUnchanged == move(-1, 1, 1, -1)

rotateCCW == move(-1, 1, -1, 1)

\* V3 routes that actuate: route -> the setMotor calls its handler makes
routesV3 ==
    [f |-> driveForward, b |-> driveBack, sl |-> strafeLeft, sr |-> strafeRight,
     fl |-> diagFwdLeft, fr |-> diagFwdRight, bl |-> diagBckLeft, br |-> diagBckRight,
     rcw |-> rotateCW, rccw |-> rotateCCW, s |-> stopAllV3]

stopAllEARLY == <<CallEARLY("FL", 0, 0), CallEARLY("FR", 0, 0),
                  CallEARLY("BL", 0, 0), CallEARLY("BR", 0, 0)>>

moveEARLY(fl1, fl2, fr1, fr2, bl1, bl2, br1, br2) ==
    <<CallEARLY("FL", fl1, fl2), CallEARLY("FR", fr1, fr2),
      CallEARLY("BL", bl1, bl2), CallEARLY("BR", br1, br2)>>

routesEARLY ==
    [f |-> moveEARLY(1,0, 1,0, 1,0, 1,0), b |-> moveEARLY(0,1, 0,1, 0,1, 0,1),
     cl |-> moveEARLY(0,1, 1,0, 1,0, 0,1), cr |-> moveEARLY(1,0, 0,1, 0,1, 1,0),
     fl |-> moveEARLY(0,0, 1,0, 1,0, 0,0), fr |-> moveEARLY(1,0, 0,0, 0,0, 1,0),
     bl |-> moveEARLY(0,1, 0,0, 0,0, 0,1), br |-> moveEARLY(0,0, 0,1, 0,1, 0,0),
     s |-> stopAllEARLY]

allMotors == <<"FL", "FR", "BL", "BR">>
stopAllTEST == [i \in 1..4 |-> Call(allMotors[i], 0)]

stopAll(f) == CASE f = "V3" -> stopAllV3 [] f = "EARLY" -> stopAllEARLY [] f = "TEST" -> stopAllTEST

routes(f) == IF f = "V3" THEN routesV3 ELSE routesEARLY

----------------------------------------------------------------------------
(* setup() *)

\* mutation: the motors are stopped before the drivers are enabled
setupV3_stopFirst == <<"stopAll", "STBY_LEFT", "STBY_RIGHT", "begin">>

setupV3 == <<"STBY_LEFT", "STBY_RIGHT", "stopAll", "begin">>
setupEARLY == <<"stopAll", "begin">>
setupTEST == <<"STBY_LEFT", "STBY_RIGHT", "stopAll", "begin">>

setup(f) == CASE f = "V3" -> setupV3 [] f = "EARLY" -> setupEARLY [] f = "TEST" -> setupTEST

\* the statement of setup() after statement s; "idle" after the last one
NextStmt(f, s) ==
    LET q == setup(f)
        i == CHOOSE j \in 1..Len(q) : q[j] = s
    IN  IF i = Len(q) THEN "idle" ELSE q[i + 1]

SetupStbyLeft ==
    /\ pc = "STBY_LEFT"
    /\ todo = <<>>
    /\ gpio' = [gpio EXCEPT ![STBY_LEFT] = HIGH]
    /\ log' = Append(log, Write("gpio", STBY_LEFT))
    /\ pc' = NextStmt(fw, pc)
    /\ UNCHANGED <<clientVars, fw, ledc, globalSpeed, invert, req, resp, todo, line, lastDir, pre>>

SetupStbyRight ==
    /\ pc = "STBY_RIGHT"
    /\ todo = <<>>
    /\ gpio' = [gpio EXCEPT ![STBY_RIGHT] = HIGH]
    /\ log' = Append(log, Write("gpio", STBY_RIGHT))
    /\ pc' = NextStmt(fw, pc)
    /\ UNCHANGED <<clientVars, fw, ledc, globalSpeed, invert, req, resp, todo, line, lastDir, pre>>

SetupStopAll ==
    /\ pc = "stopAll"
    /\ todo = <<>>
    /\ todo' = stopAll(fw)
    /\ pc' = NextStmt(fw, pc)
    /\ UNCHANGED <<clientVars, fw, gpio, ledc, globalSpeed, invert, req, resp, line, lastDir, log, pre>>

\* server.begin(): requests are served from here on
SetupBegin ==
    /\ pc = "begin"
    /\ todo = <<>>
    /\ pc' = NextStmt(fw, pc)
    /\ UNCHANGED <<clientVars, fw, gpio, ledc, globalSpeed, invert, req, resp, todo, line, lastDir, log, pre>>

----------------------------------------------------------------------------
(* Request handlers *)

NoReq == [route |-> "", val |-> <<>>, motor |-> <<>>, dir |-> <<>>]
Request(route, val, motor, dir) == [route |-> route, val |-> val, motor |-> motor, dir |-> dir]

hasParam(p) == p # <<>>

\* a request arrives: the handler starts with an empty write log; the wheel
\* state and the route of the request before it are kept for comparison
Arrive ==
    /\ log' = <<>>
    /\ pre' = [gpio |-> gpio, ledc |-> ledc, route |-> req.route]

\* the val parameter of a /speed request: absent, the decimal text of a
\* sampled integer, or a text that is no number
ValParams == {<<>>, <<(<<"x">>)>>} \cup {<<DecText(v)>> : v \in SpeedInputs}

MotorParams == {<<>>, <<"fl">>, <<"fr">>, <<"bl">>, <<"br">>, <<"xx">>}
DirParams == {<<>>, <<"fwd">>, <<"bck">>, <<"up">>}

\* a route whose handler calls a maneuver function or stopAll, then send(200)
HandleManeuver ==
    /\ pc = "idle"
    /\ fw \in {"V3", "EARLY"}
    /\ \E route \in DOMAIN routes(fw) :
         /\ req' = Request(route, <<>>, <<>>, <<>>)
         /\ todo' = routes(fw)[route]
    /\ pc' = "handler"
    /\ Arrive
    /\ UNCHANGED <<clientVars, fw, gpio, ledc, globalSpeed, invert, resp, line, lastDir>>

\* mutation: a request without val falls back to the default speed
speedRouteV3_resetsDefault(r) ==
    IF hasParam(r.val) THEN constrain(toInt(r.val[1]), 0, 255) ELSE DefaultSpeed

speedRouteV3(r) ==
    IF hasParam(r.val) THEN constrain(toInt(r.val[1]), 0, 255) ELSE globalSpeed

speedRouteEARLY(r) ==
    IF hasParam(r.val) THEN toInt(r.val[1]) ELSE globalSpeed

\* mutation: the new speed is applied at once to the wheels that are driving
HandleSpeed_retroactive ==
    /\ pc = "idle"
    /\ fw \in {"V3", "EARLY"}
    /\ \E val \in ValParams :
         /\ req' = Request("speed", val, <<>>, <<>>)
         /\ globalSpeed' = IF fw = "V3" THEN speedRouteV3(req') ELSE speedRouteEARLY(req')
    /\ ledc' = [c \in DOMAIN ledc |-> IF ledc[c] # 0 THEN globalSpeed' ELSE 0]
    /\ resp' = 200
    /\ Arrive
    /\ UNCHANGED <<clientVars, fw, pc, gpio, invert, todo, line, lastDir>>

HandleSpeed ==
    /\ pc = "idle"
    /\ fw \in {"V3", "EARLY"}
    /\ \E val \in ValParams :
         /\ req' = Request("speed", val, <<>>, <<>>)
         /\ globalSpeed' = IF fw = "V3" THEN speedRouteV3(req') ELSE speedRouteEARLY(req')
    /\ resp' = 200
    /\ Arrive
    /\ UNCHANGED <<clientVars, fw, pc, gpio, ledc, invert, todo, line, lastDir>>

\* motor-test /test: 400 without both parameters, else stopAll and the target
testTarget(motor) ==
    IF motor = "fl" THEN <<"FL">>
    ELSE IF motor = "fr" THEN <<"FR">>
    ELSE IF motor = "bl" THEN <<"BL">>
    ELSE IF motor = "br" THEN <<"BR">>
    ELSE <<>>

\* mutation: the other wheels are not stopped first
testRoute_noStop(r) ==
    LET dirVal == IF r.dir[1] = "fwd" THEN 1 ELSE -1
        target == testTarget(r.motor[1])
    IN  IF target # <<>> THEN <<Call(target[1], dirVal)>> ELSE <<>>

testRoute(r) ==
    LET dirVal == IF r.dir[1] = "fwd" THEN 1 ELSE -1
        target == testTarget(r.motor[1])
    IN  stopAllTEST \o (IF target # <<>> THEN <<Call(target[1], dirVal)>> ELSE <<>>)

\* mutation: only the motor parameter is required; without dir the
\* handler still stops all wheels
HandleTest_motorOnly ==
    /\ pc = "idle"
    /\ fw = "TEST"
    /\ \E motor \in MotorParams, dir \in DirParams :
         /\ req' = Request("test", <<>>, motor, dir)
         /\ IF ~hasParam(motor)
            THEN resp' = 400 /\ UNCHANGED <<pc, todo>>
            ELSE /\ resp' = resp /\ pc' = "handler"
                 /\ todo' = IF hasParam(dir) THEN testRoute(req') ELSE stopAllTEST
    /\ Arrive
    /\ UNCHANGED <<clientVars, fw, gpio, ledc, globalSpeed, invert, line, lastDir>>

HandleTest ==
    /\ pc = "idle"
    /\ fw = "TEST"
    /\ \E motor \in MotorParams, dir \in DirParams :
         /\ req' = Request("test", <<>>, motor, dir)
         /\ IF ~hasParam(motor) \/ ~hasParam(dir)
            THEN resp' = 400 /\ UNCHANGED <<pc, todo>>
            ELSE resp' = resp /\ pc' = "handler" /\ todo' = testRoute(req')
    /\ Arrive
    /\ UNCHANGED <<clientVars, fw, gpio, ledc, globalSpeed, invert, line, lastDir>>

HandleStop ==
    /\ pc = "idle"
    /\ fw = "TEST"
    /\ req' = Request("stop", <<>>, <<>>, <<>>)
    /\ todo' = stopAllTEST
    /\ pc' = "handler"
    /\ Arrive
    /\ UNCHANGED <<clientVars, fw, gpio, ledc, globalSpeed, invert, resp, line, lastDir>>

\* a request for a path no server.on() registered: no handler of the
\* firmware runs and the server answers 404
HandleNotFound ==
    /\ pc = "idle"
    /\ req' = Request("nosuch", <<>>, <<>>, <<>>)
    /\ resp' = 404
    /\ Arrive
    /\ UNCHANGED <<clientVars, fw, pc, gpio, ledc, globalSpeed, invert, todo, line, lastDir>>

\* r->send(200) at the end of a handler that actuated
Respond ==
    /\ pc = "handler"
    /\ todo = <<>>
    /\ pc' = "idle"
    /\ resp' = 200
    /\ UNCHANGED <<clientVars, fw, gpio, ledc, globalSpeed, invert, req, todo, line, lastDir, log, pre>>

----------------------------------------------------------------------------
(* Specifications *)

Init ==
    /\ fw \in Firmwares
    /\ pc = Head(setup(fw))
    /\ gpio = [p \in Pins(fw) |-> LOW]
    /\ ledc = [c \in Channels(fw) |-> 0]
    /\ globalSpeed = DefaultSpeed
    /\ invert = [w \in Wheels |-> Motor(fw, w).invert]
    /\ req = NoReq
    /\ resp = 0
    /\ todo = <<>>
    /\ line = 0
    /\ lastDir = [w \in Wheels |-> NoDir]
    /\ log = <<>>
    /\ pre = [gpio |-> gpio, ledc |-> ledc, route |-> ""]
    /\ PanelLoaded

Next ==
    \/ SetupStbyLeft
    \/ SetupStbyRight
    \/ SetupStopAll
    \/ SetupBegin
    \/ HandleManeuver
    \/ HandleSpeed
    \/ HandleTest
    \/ HandleStop
    \/ HandleNotFound
    \/ Respond
    \/ digitalWriteIn1
    \/ digitalWriteIn2
    \/ ledcWriteDuty

Spec == Init /\ [][Next]_vars

\* The V3 wheel actuator on its own: setMotor applied to any wheel with any
\* intent, for every setting of the invert flags and every sampled speed.
InitActuator ==
    /\ fw = "V3"
    /\ pc = "actuator"
    /\ gpio = [p \in Pins("V3") |-> IF p \in StbyPins("V3") THEN HIGH ELSE LOW]
    /\ ledc = [c \in Channels("V3") |-> 0]
    /\ globalSpeed \in {constrain(v, 0, 255) : v \in SpeedInputs}
    /\ invert \in [Wheels -> BOOLEAN]
    /\ req = NoReq
    /\ resp = 0
    /\ todo = <<>>
    /\ line = 0
    /\ lastDir = [w \in Wheels |-> NoDir]
    /\ log = <<>>
    /\ pre = [gpio |-> gpio, ledc |-> ledc, route |-> ""]
    /\ PanelLoaded

ActuatorCall ==
    /\ pc = "actuator"
    /\ todo = <<>>
    /\ \E w \in Wheels, d \in {-1, 0, 1} : todo' = <<Call(w, d)>>
    /\ log' = <<>>
    /\ UNCHANGED <<clientVars, fw, pc, gpio, ledc, globalSpeed, invert, req, resp, line, lastDir, pre>>

NextActuator ==
    \/ ActuatorCall
    \/ digitalWriteIn1
    \/ digitalWriteIn2
    \/ ledcWriteDuty

SpecActuator == InitActuator /\ [][NextActuator]_vars

----------------------------------------------------------------------------
(* Observations *)

In1(w) == gpio[Motor(fw, w).in1]
In2(w) == gpio[Motor(fw, w).in2]
Duty(w) == ledc[Motor(fw, w).channel]

\* the intent a wheel's direction lines realise
Intent(w) ==
    IF In1(w) = HIGH /\ In2(w) = LOW THEN "forward"
    ELSE IF In1(w) = LOW /\ In2(w) = HIGH THEN "reverse"
    ELSE IF In1(w) = LOW /\ In2(w) = LOW THEN "coast"
    ELSE "brake"

Idle == pc = "idle" /\ todo = <<>>

TypeOK ==
    /\ fw \in Firmwares
    /\ line \in 0..2
    /\ \A p \in DOMAIN gpio : gpio[p] \in {LOW, HIGH}
    /\ Len(todo) <= 5

----------------------------------------------------------------------------
(* The maneuver table of the specification, by V3 route:                    *)
(* intents of FL, FR, BL, BR                                                *)

ManeuverTable ==
    [f    |-> <<"forward", "forward", "forward", "forward">>,
     b    |-> <<"reverse", "reverse", "reverse", "reverse">>,
     sl   |-> <<"reverse", "forward", "forward", "reverse">>,
     sr   |-> <<"forward", "reverse", "reverse", "forward">>,
     fl   |-> <<"coast",   "forward", "forward", "coast">>,
     fr   |-> <<"forward", "coast",   "coast",   "forward">>,
     bl   |-> <<"reverse", "coast",   "coast",   "reverse">>,
     br   |-> <<"coast",   "reverse", "reverse", "coast">>,
     rcw  |-> <<"forward", "reverse", "forward", "reverse">>,
     rccw |-> <<"reverse", "forward", "reverse", "forward">>,
     s    |-> <<"coast",   "coast",   "coast",   "coast">>]

WheelIndex(w) == CHOOSE i \in 1..4 : allMotors[i] = w
Intents == [i \in 1..4 |-> Intent(allMotors[i])]
Driving(w) == Intent(w) \in {"forward", "reverse"}

\* a setMotor call on wheel w is pending or part-way through its writes
InCall(w) == todo # <<>> /\ Head(todo).m = w

\* the last request handled was maneuver or stop, and its handler has finished
AfterManeuver == Idle /\ req.route \in DOMAIN routes(fw)

----------------------------------------------------------------------------
(* Claims *)

\* C1: in the V3 firmware, after any of the eleven commands has executed, the
\* four wheels FL, FR, BL, BR have exactly the intents of that command's row
\* of the maneuver table, whatever the wheels were doing before.
C1_ManeuverIntents ==
    (fw = "V3" /\ AfterManeuver) => Intents = ManeuverTable[req.route]

C1_Witness ==
    /\ fw = "V3" /\ AfterManeuver /\ req.route = "sl"
    /\ Intents = <<"reverse", "forward", "forward", "reverse">>
    /\ resp = 200

\* C2: in every firmware, after stop (route /s or /stop) has executed, all
\* four wheels have both direction lines de-asserted and PWM duty 0.
C2_StopCoastsAll ==
    (Idle /\ req.route \in {"s", "stop"}) =>
        \A w \in Wheels : In1(w) = LOW /\ In2(w) = LOW /\ Duty(w) = 0

\* C3: V3 setMotor on a non-inverted wheel leaves in1 HIGH, in2 LOW for
\* forward and in1 LOW, in2 HIGH for reverse, with the wheel's PWM duty equal
\* to Global Speed, for every wheel and every speed.
C3_SetMotorNonInverted ==
    \A w \in Wheels :
        (fw = "V3" /\ ~invert[w] /\ ~InCall(w)) =>
            /\ lastDir[w] = 1 =>
                 In1(w) = HIGH /\ In2(w) = LOW /\ Duty(w) = globalSpeed
            /\ lastDir[w] = -1 =>
                 In1(w) = LOW /\ In2(w) = HIGH /\ Duty(w) = globalSpeed

C3_Witness ==
    /\ todo = <<>>
    /\ globalSpeed = 254
    /\ \E w, u \in Wheels :
         /\ ~invert[w] /\ lastDir[w] = 1 /\ Intent(w) = "forward" /\ Duty(w) = 254
         /\ ~invert[u] /\ lastDir[u] = -1 /\ Intent(u) = "reverse" /\ Duty(u) = 254

\* C4: the V3 speed setter clamps on write: after a speed request for the
\* integer v the stored Global Speed is 0 if v < 0, 255 if v > 255, else v.
C4_SpeedClamp ==
    \A v \in SpeedInputs :
        (fw = "V3" /\ pc = "idle" /\ req = Request("speed", <<DecText(v)>>, <<>>, <<>>)) =>
            globalSpeed = (IF v < 0 THEN 0 ELSE IF v > 255 THEN 255 ELSE v)

C4_Witness ==
    /\ fw = "V3" /\ pc = "idle"
    /\ req = Request("speed", <<(<<"4", "0", "0">>)>>, <<>>, <<>>)
    /\ globalSpeed = 255

\* C5: in both drive firmwares Global Speed lies in [0,255] in every state
\* and no PWM duty outside [0,255] is ever written to a wheel channel.
C5_SpeedInRange ==
    fw \in {"V3", "EARLY"} =>
        /\ globalSpeed \in 0..255
        /\ \A c \in DOMAIN ledc : ledc[c] \in 0..255

\* C6: no wheel ever has both direction lines asserted, not even between
\* the two direction-line writes of one setMotor call.
C6_NeverBothAsserted ==
    \A w \in Wheels : ~(In1(w) = HIGH /\ In2(w) = HIGH)

\* C7: setMotor forward on an inverted wheel gives the same direction-line
\* pattern and PWM duty as setMotor reverse on a non-inverted wheel, and
\* inverted reverse the same as non-inverted forward.
C7_Inversion ==
    \A w, u \in Wheels :
        ( /\ fw = "V3" /\ invert[w] /\ ~invert[u]
          /\ ~InCall(w) /\ ~InCall(u)
          /\ lastDir[w] \in {1, -1}
          /\ lastDir[u] = 0 - lastDir[w] ) =>
            In1(w) = In1(u) /\ In2(w) = In2(u) /\ Duty(w) = Duty(u)

C7_Witness ==
    /\ todo = <<>>
    /\ \E w, u \in Wheels :
         /\ invert[w] /\ ~invert[u]
         /\ lastDir[w] = 1 /\ lastDir[u] = -1
         /\ Intent(w) = "reverse" /\ Intent(u) = "reverse"
         /\ Duty(w) = globalSpeed /\ globalSpeed > 0

\* C8: in the V3 firmware, after a maneuver run at Global Speed s (150 until
\* a speed request is made), every wheel whose table intent is forward or
\* reverse has duty exactly s and every wheel whose intent is coast has duty 0.
C8_UniformDuty ==
    /\ req = NoReq => globalSpeed = 150
    /\ (fw = "V3" /\ AfterManeuver) =>
          \A w \in Wheels :
              LET intent == ManeuverTable[req.route][WheelIndex(w)]
              IN  /\ intent \in {"forward", "reverse"} => Duty(w) = globalSpeed
                  /\ intent = "coast" => Duty(w) = 0

C8_Witness ==
    /\ fw = "V3" /\ AfterManeuver /\ req.route = "sl" /\ globalSpeed = 150
    /\ Intents = <<"reverse", "forward", "forward", "reverse">>
    /\ \A w \in Wheels : Duty(w) = 150

C9_Step ==
    /\ (pc = "idle" /\ pc' = "idle" /\ req'.route = "speed") =>
          (gpio' = gpio /\ ledc' = ledc)
    /\ (pc = "handler" /\ pc' = "idle" /\ fw \in {"V3", "EARLY"}) =>
          (\A w \in Wheels : Driving(w)' => Duty(w)' = globalSpeed')

\* C9: a speed request changes no direction line and no PWM duty, also of
\* wheels that are driving; the next maneuver writes the Global Speed then in
\* force to every wheel it drives.
C9_SpeedNotRetroactive == [][C9_Step]_vars

C9_Witness ==
    /\ pc = "idle" /\ req.route = "speed" /\ resp = 200
    /\ \E w \in Wheels : Driving(w) /\ Duty(w) # globalSpeed

C10_Step ==
    fw \in {"V3", "TEST"} =>
        /\ todo # <<>> => (gpio[STBY_LEFT] = HIGH /\ gpio[STBY_RIGHT] = HIGH)
        /\ \A p \in StbyPins(fw) : gpio[p] = HIGH => gpio'[p] = HIGH

\* C10: in the V3 and motor-test firmware every direction-line or PWM write
\* happens with both standby lines already driven HIGH, and no step drives a
\* standby line LOW again.
C10_StandbyFirst == [][C10_Step]_vars

C10_Witness ==
    /\ fw \in {"V3", "TEST"}
    /\ pc = "begin" /\ todo # <<>> /\ line = 1
    /\ gpio[STBY_LEFT] = HIGH /\ gpio[STBY_RIGHT] = HIGH

\* wheel state as a request found it
PreIn1(w) == pre.gpio[Motor(fw, w).in1]
PreIn2(w) == pre.gpio[Motor(fw, w).in2]
PreDuty(w) == pre.ledc[Motor(fw, w).channel]
WheelsAsBefore ==
    \A w \in Wheels : In1(w) = PreIn1(w) /\ In2(w) = PreIn2(w) /\ Duty(w) = PreDuty(w)

\* the request names no registered command, or no wheel of the motor test
Unrecognized(r) ==
    \/ r.route = "nosuch"
    \/ /\ r.route = "test" /\ hasParam(r.motor) /\ hasParam(r.dir)
       /\ r.motor[1] \notin {"fl", "fr", "bl", "br"}

\* C11: a request whose command or wheel identifier is not recognized causes
\* no write to a direction line or PWM channel and leaves all four wheels as
\* they were; this includes /test with a motor other than fl, fr, bl, br.
C11_UnknownNoWrite ==
    Unrecognized(req) => (log = <<>> /\ WheelsAsBefore)

\* the wheel a motor-test name stands for, and the intent of a direction word
TestWheel == [fl |-> "FL", fr |-> "FR", bl |-> "BL", br |-> "BR"]
TestIntent == [fwd |-> "forward", bck |-> "reverse"]

\* C12: in the motor-test firmware at most one wheel drives between
\* requests; after /test with a valid wheel and direction exactly that wheel
\* drives in that direction at duty TEST_SPEED and the other three coast with
\* duty 0, whatever the wheels were doing before.
C12_OneWheelAtATime ==
    (fw = "TEST" /\ Idle) =>
        /\ Cardinality({w \in Wheels : Driving(w) \/ Duty(w) # 0}) <= 1
        /\ \A mn \in DOMAIN TestWheel, dn \in DOMAIN TestIntent :
              (req.route = "test" /\ req.motor = <<mn>> /\ req.dir = <<dn>>) =>
                  \A w \in Wheels :
                      IF w = TestWheel[mn]
                      THEN Intent(w) = TestIntent[dn] /\ Duty(w) = TEST_SPEED
                      ELSE Intent(w) = "coast" /\ Duty(w) = 0

C12_Witness ==
    /\ fw = "TEST" /\ Idle
    /\ req.route = "test" /\ req.motor = <<"bl">> /\ req.dir = <<"bck">>
    /\ PreIn1("FL") = HIGH /\ PreDuty("FL") = TEST_SPEED
    /\ Intent("BL") = "reverse" /\ Duty("BL") = TEST_SPEED
    /\ Intent("FL") = "coast" /\ Duty("FL") = 0

\* the writes of one actuator call on wheel w: both direction lines, then the duty
WheelWrites(w) ==
    <<Write("gpio", Motor(fw, w).in1), Write("gpio", Motor(fw, w).in2),
      Write("ledc", Motor(fw, w).channel)>>

ManeuverWrites ==
    WheelWrites("FL") \o WheelWrites("FR") \o WheelWrites("BL") \o WheelWrites("BR")

IsPrefix(p, q) == Len(p) <= Len(q) /\ \A i \in 1..Len(p) : p[i] = q[i]

\* C13: a maneuver command calls the wheel actuator exactly once per wheel,
\* in the order front-left, front-right, back-left, back-right, and makes no
\* other pin or PWM write before, between or after those four calls.
C13_OncePerWheelInOrder ==
    (fw \in {"V3", "EARLY"} /\ pc \in {"handler", "idle"} /\ req.route \in DOMAIN routes(fw)) =>
        /\ IsPrefix(log, ManeuverWrites)
        /\ Idle => log = ManeuverWrites

C13_Witness ==
    /\ fw = "V3" /\ Idle /\ req.route = "rcw"
    /\ Len(log) = 12
    /\ log[4] = Write("gpio", 19) /\ log[9] = Write("ledc", 2)

\* C14: in the V3 firmware a command issued twice in a row, with no other
\* request in between, leaves the direction lines and duties of all four
\* wheels as the first issue left them; for stop that is all coasting, duty 0.
C14_Idempotent ==
    (fw = "V3" /\ AfterManeuver /\ pre.route = req.route) =>
        /\ WheelsAsBefore
        /\ req.route = "s" =>
              \A w \in Wheels : Intent(w) = "coast" /\ Duty(w) = 0

C14_Witness ==
    /\ fw = "V3" /\ AfterManeuver
    /\ req.route = "sl" /\ pre.route = "sl"
    /\ globalSpeed = 254
    /\ \A w \in Wheels : Driving(w) /\ Duty(w) = 254 /\ PreDuty(w) = 254

\* the intent a wheel's direction lines realised when the request arrived
PreIntent(w) ==
    IF PreIn1(w) = HIGH /\ PreIn2(w) = LOW THEN "forward"
    ELSE IF PreIn1(w) = LOW /\ PreIn2(w) = HIGH THEN "reverse"
    ELSE IF PreIn1(w) = LOW /\ PreIn2(w) = LOW THEN "coast"
    ELSE "brake"

\* C15: the intents left by rotate-cw and those left by rotate-ccw issued
\* right after it are sign-inverses wheel for wheel: forward becomes reverse,
\* reverse becomes forward, and no wheel coasts in either.
C15_RotateSymmetry ==
    (fw = "V3" /\ AfterManeuver /\ req.route = "rccw" /\ pre.route = "rcw") =>
        \A w \in Wheels :
            \/ PreIntent(w) = "forward" /\ Intent(w) = "reverse"
            \/ PreIntent(w) = "reverse" /\ Intent(w) = "forward"

C15_Witness ==
    /\ fw = "V3" /\ AfterManeuver /\ req.route = "rccw" /\ pre.route = "rcw"
    /\ PreIntent("FL") = "forward" /\ Intent("FL") = "reverse"
    /\ PreIntent("BR") = "reverse" /\ Intent("BR") = "forward"

\* direction-line levels of an intent
Pattern(intent) ==
    CASE intent = "forward" -> <<HIGH, LOW>>
      [] intent = "reverse" -> <<LOW, HIGH>>
      [] intent = "coast" -> <<LOW, LOW>>

\* the routes of the earlier drive firmware as intents of FL, FR, BL, BR
EarlyTable ==
    [f  |-> <<"forward", "forward", "forward", "forward">>,
     b  |-> <<"reverse", "reverse", "reverse", "reverse">>,
     cl |-> <<"reverse", "forward", "forward", "reverse">>,
     cr |-> <<"forward", "reverse", "reverse", "forward">>,
     fl |-> <<"coast",   "forward", "forward", "coast">>,
     fr |-> <<"forward", "coast",   "coast",   "forward">>,
     bl |-> <<"reverse", "coast",   "coast",   "reverse">>,
     br |-> <<"coast",   "reverse", "reverse", "coast">>,
     s  |-> <<"coast",   "coast",   "coast",   "coast">>]

\* in1, in2 and duty of wheel w as a function of firmware, command and speed alone
Expected(f, route, s, w) ==
    LET intent == IF f = "V3" THEN ManeuverTable[route][WheelIndex(w)]
                  ELSE EarlyTable[route][WheelIndex(w)]
    IN  <<Pattern(intent)[1], Pattern(intent)[2],
          IF f = "V3" /\ intent = "coast" THEN 0 ELSE s>>

\* C16: last command wins: after a command of either drive firmware the
\* direction lines and duties of all four wheels are a function of that
\* command and the Global Speed in force alone, so any two histories ending in
\* the same command at the same speed leave the same wheel state.
C16_LastCommandWins ==
    (fw \in {"V3", "EARLY"} /\ AfterManeuver) =>
        \A w \in Wheels :
            <<In1(w), In2(w), Duty(w)>> = Expected(fw, req.route, globalSpeed, w)

C16_Witness ==
    /\ fw = "V3" /\ AfterManeuver /\ req.route = "fl" /\ pre.route = "speed"
    /\ globalSpeed = 1
    /\ PreIntent("FL") = "reverse" /\ PreDuty("FL") = 150 /\ PreDuty("FR") = 150
    /\ Intent("FL") = "coast" /\ Duty("FL") = 0
    /\ Intent("FR") = "forward" /\ Duty("FR") = 1

TableRows == {ManeuverTable[r] : r \in DOMAIN ManeuverTable}

\* C17: in the V3 firmware, from the end of setup on, in every state between
\* requests the intents of FL, FR, BL, BR read from the direction lines form
\* one of the eleven rows of the maneuver table.
C17_AlwaysATableRow ==
    (fw = "V3" /\ Idle) => Intents \in TableRows

C17_Witness ==
    /\ fw = "V3" /\ Idle
    /\ req.route = "nosuch" /\ pre.route = "speed"
    /\ Intents = <<"coast", "reverse", "reverse", "coast">>

MotorPins(f) == UNION {{Motor(f, w).in1, Motor(f, w).in2, Motor(f, w).pwmPin} : w \in Wheels}

\* twelve different motor pins, none a standby pin, and four different channels
DistinctWiring(f) ==
    /\ Cardinality(MotorPins(f)) = 12
    /\ MotorPins(f) \cap StbyPins(f) = {}
    /\ Cardinality(Channels(f)) = 4

C18_Step ==
    /\ DistinctWiring(fw) /\ fw' = fw
    /\ todo # <<>> =>
          /\ \A u \in Wheels \ {Head(todo).m} :
                In1(u)' = In1(u) /\ In2(u)' = In2(u) /\ Duty(u)' = Duty(u)
          /\ \A p \in StbyPins(fw) : gpio'[p] = gpio[p]
          /\ globalSpeed' = globalSpeed

\* C18: the wheels have pairwise distinct PWM channels and pins, fixed for
\* the run, so a step of an actuator call on wheel w changes nothing but w's
\* two direction lines and w's duty: the other three wheels, both standby
\* lines and Global Speed keep their values.
C18_ActuatorFrame == [][C18_Step]_vars

C18_Witness ==
    /\ fw = "V3" /\ pc = "handler"
    /\ todo # <<>> /\ Head(todo).m = "FR" /\ line = 2
    /\ PreIntent("FR") = "forward" /\ Intent("FR") = "reverse"
    /\ PreIntent("BL") = "forward" /\ Intent("BL") = "forward"
    /\ gpio[STBY_LEFT] = HIGH /\ gpio[STBY_RIGHT] = HIGH

C19_Step ==
    globalSpeed' # globalSpeed =>
        (pc = "idle" /\ pc' = "idle" /\ req'.route = "speed" /\ hasParam(req'.val))

\* C19: only the speed setter changes Global Speed: no maneuver, stop or
\* actuator step changes it, a /speed request without val leaves it as it
\* is, and nothing puts it back to the default 150.
C19_OnlySpeedSetterWrites == [][C19_Step]_vars

C19_Witness ==
    /\ pc = "idle" /\ req.route = "speed" /\ ~hasParam(req.val)
    /\ pre.route \in {"f", "s"}
    /\ globalSpeed = 254

\* a /test request without its motor or its dir parameter
MissingParam(r) == r.route = "test" /\ (~hasParam(r.motor) \/ ~hasParam(r.dir))

\* C20: in the motor-test firmware a /test request that lacks motor or dir
\* is answered with 400 and makes no direction-line or PWM write: all four
\* wheels are as they were before the request.
C20_MissingParamRejected ==
    (fw = "TEST" /\ MissingParam(req)) =>
        (resp = 400 /\ Idle /\ log = <<>> /\ WheelsAsBefore)

C20_Witness ==
    /\ fw = "TEST" /\ Idle /\ resp = 400
    /\ req.route = "test" /\ req.motor = <<"fl">> /\ req.dir = <<>>
    /\ pre.route = "test"
    /\ Intent("BR") = "forward" /\ Duty("BR") = TEST_SPEED

----------------------------------------------------------------------------
(* The control panel served by the V3 firmware: the page's script and the   *)
(* operator's pointers and keyboard.                                        *)

MaxPointers == 2    \* on-screen buttons held down at once
MaxKeys == 2        \* keyboard keys held down at once
MaxTimers == 2      \* timeouts pending at once

\* Movement buttons and keyboard keys the operator uses (the panel has ten
\* movement buttons and eleven mapped keys; the stop button is StopButtonDown).
Buttons == {"f", "rcw"}
Keys == {"ArrowUp", "q", " "}

keyMap ==
    "ArrowUp" :> "f" @@ "ArrowDown" :> "b" @@ "ArrowLeft" :> "sl" @@ "ArrowRight" :> "sr" @@
    "q" :> "fl" @@ "e" :> "fr" @@ "z" :> "bl" @@ "c" :> "br" @@
    "a" :> "rcw" @@ "d" :> "rccw" @@ " " :> "s"

\* KeyboardEvent.key of a key's keydown and keyup events: a letter key
\* reports its capital while Shift is down.
Capital == "q" :> "Q" @@ "e" :> "E" @@ "z" :> "Z" @@ "c" :> "C" @@ "a" :> "A" @@ "d" :> "D"
EventKey(k, sh) == IF sh /\ k \in DOMAIN Capital THEN Capital[k] ELSE k

send(cmd) == lastSent' = cmd

setTimeout == CHOOSE id \in 1..MaxTimers : id \notin timers /\ \A j \in 1..(id - 1) : j \in timers

activate(btn) ==
    /\ timers' = timers \ {stopTimer}
    /\ activeBtn' = btn
    /\ send(btn)
    /\ UNCHANGED stopTimer

release ==
    /\ activeBtn' = "null"
    /\ stopTimer' = setTimeout
    /\ timers' = timers \cup {setTimeout}
    /\ UNCHANGED lastSent

keydown(key) ==
    IF key \notin DOMAIN keyMap \/ key \in heldKeys
    THEN UNCHANGED <<heldKeys, lastSent>>
    ELSE heldKeys' = heldKeys \cup {key} /\ send(keyMap[key])

keyup(key) ==
    IF key \notin DOMAIN keyMap
    THEN UNCHANGED <<heldKeys, lastSent>>
    ELSE /\ heldKeys' = heldKeys \ {key}
         /\ IF heldKeys' = {} THEN send("s") ELSE UNCHANGED lastSent

\* mousedown / touchstart on the stop button
StopButtonDown ==
    /\ send("s")
    /\ UNCHANGED <<firmwareVars, activeBtn, stopTimer, timers, heldKeys, pressed, physKeys, shift>>

\* mousedown / touchstart on a movement button
ButtonDown ==
    \E btn \in Buttons \ pressed :
        /\ Cardinality(pressed) < MaxPointers
        /\ pressed' = pressed \cup {btn}
        /\ activate(btn)
        /\ UNCHANGED <<firmwareVars, heldKeys, physKeys, shift>>

\* mouseup / touchend / touchcancel on a movement button
ButtonUp ==
    \E btn \in pressed :
        /\ Cardinality(timers) < MaxTimers
        /\ pressed' = pressed \ {btn}
        /\ release
        /\ UNCHANGED <<firmwareVars, heldKeys, physKeys, shift>>

\* the pointer holding a movement button slides off it
MouseLeave ==
    \E btn \in pressed :
        /\ Cardinality(timers) < MaxTimers
        /\ pressed' = pressed \ {btn}
        /\ IF activeBtn = btn THEN release
           ELSE UNCHANGED <<activeBtn, stopTimer, timers, lastSent>>
        /\ UNCHANGED <<firmwareVars, heldKeys, physKeys, shift>>

\* the 80 ms timeout set by release expires
TimerFires ==
    \E id \in timers :
        /\ timers' = timers \ {id}
        /\ send("s")
        /\ UNCHANGED <<firmwareVars, activeBtn, stopTimer, heldKeys, pressed, physKeys, shift>>

KeyDown ==
    \E k \in Keys \ physKeys :
        /\ Cardinality(physKeys) < MaxKeys
        /\ physKeys' = physKeys \cup {k}
        /\ keydown(EventKey(k, shift))
        /\ UNCHANGED <<firmwareVars, activeBtn, stopTimer, timers, pressed, shift>>

\* keyboard auto-repeat of a key that is held down
KeyRepeat ==
    \E k \in physKeys :
        /\ keydown(EventKey(k, shift))
        /\ UNCHANGED <<firmwareVars, activeBtn, stopTimer, timers, pressed, physKeys, shift>>

KeyUp ==
    \E k \in physKeys :
        /\ physKeys' = physKeys \ {k}
        /\ keyup(EventKey(k, shift))
        /\ UNCHANGED <<firmwareVars, activeBtn, stopTimer, timers, pressed, shift>>

\* Shift goes down or up; its own events carry the unmapped key "Shift"
ShiftKey ==
    /\ shift' = ~shift
    /\ IF shift THEN keyup("Shift") ELSE keydown("Shift")
    /\ UNCHANGED <<firmwareVars, activeBtn, stopTimer, timers, pressed, physKeys>>

InitClient ==
    /\ fw = "V3"
    /\ pc = "idle"
    /\ gpio = [p \in Pins("V3") |-> IF p \in StbyPins("V3") THEN HIGH ELSE LOW]
    /\ ledc = [c \in Channels("V3") |-> 0]
    /\ globalSpeed = DefaultSpeed
    /\ invert = [w \in Wheels |-> Motor("V3", w).invert]
    /\ req = NoReq
    /\ resp = 0
    /\ todo = <<>>
    /\ line = 0
    /\ lastDir = [w \in Wheels |-> 0]
    /\ log = <<>>
    /\ pre = [gpio |-> gpio, ledc |-> ledc, route |-> ""]
    /\ PanelLoaded

NextClient ==
    \/ StopButtonDown
    \/ ButtonDown
    \/ ButtonUp
    \/ MouseLeave
    \/ TimerFires
    \/ KeyDown
    \/ KeyRepeat
    \/ KeyUp
    \/ ShiftKey

SpecClient == InitClient /\ [][NextClient]_vars

\* No movement input is held and no timeout is pending.
Released == pressed = {} /\ physKeys = {} /\ timers = {}

\* C21: in the V3 control panel, once every held movement input (button or
\* mapped key) has been released and the stop it triggers has had its 80 ms,
\* the last request sent is the stop: no movement request is left standing.
C21_StopIsLast == Released => lastSent \in {"", "s"}
====
